---- MODULE Spec2Model ----
(***************************************************************************)
(* Model of the OpenAPI registry of expresskit-api                         *)
(* (src/src/openapi-registry.ts, security-schemas in src/unnamed/part_005).*)
(*                                                                         *)
(* JavaScript strings that the code takes apart (route-table keys, route   *)
(* paths) are sequences of one-character strings.  JavaScript objects are  *)
(* functions whose DOMAIN is the set of own keys, so "the key is absent"   *)
(* and "the key holds undefined" are different values.                     *)
(***************************************************************************)
EXTENDS Integers, Sequences, FiniteSets, TLC

\* ------------------------------------------------------------------ bounds
\* longest route table (number of "METHOD /path" keys) the model registers
MaxRoutes == 2
\* most build callbacks that may wait in the microtask queue at once
MaxQueue == 2
\* longest path string the path-conversion specification enumerates
MaxPathLen == 6
\* most operations the document holds in the specifications that call
\* registerRoute with many different arguments
MaxOperations == 2

\* ------------------------------------------------------- JavaScript values
None == "none"
Undefined == [t |-> "undefined"]
Def(v) == [t |-> "defined", v |-> v]
EmptyObj == [k \in {} |-> Undefined]

\* o.f of a JavaScript object: undefined when the key is absent
Get(o, f) == IF f \in DOMAIN o THEN Def(o[f]) ELSE Undefined

\* o[k] = v on a JavaScript object
Put(o, k, v) == [x \in DOMAIN o \cup {k} |-> IF x = k THEN v ELSE o[x]]

\* ------------------------------------------------------------ string steps
UpperChars == <<"A","B","C","D","E","F","G","H","I","J","K","L","M",
                "N","O","P","Q","R","S","T","U","V","W","X","Y","Z">>
LowerChars == <<"a","b","c","d","e","f","g","h","i","j","k","l","m",
                "n","o","p","q","r","s","t","u","v","w","x","y","z">>

LowerChar(c) ==
    IF \E i \in 1..Len(UpperChars) : UpperChars[i] = c
    THEN LowerChars[CHOOSE i \in 1..Len(UpperChars) : UpperChars[i] = c]
    ELSE c

\* String.prototype.toLowerCase
toLowerCase(s) == [i \in 1..Len(s) |-> LowerChar(s[i])]

IsSpace(c) == c = " "

RECURSIVE trimStart(_)
trimStart(s) ==
    IF s # <<>> /\ IsSpace(Head(s)) THEN trimStart(Tail(s)) ELSE s

RECURSIVE trimEnd(_)
trimEnd(s) ==
    IF s # <<>> /\ IsSpace(s[Len(s)])
    THEN trimEnd(SubSeq(s, 1, Len(s) - 1))
    ELSE s

\* String.prototype.trim
trim(s) == trimEnd(trimStart(s))

\* s.split(/\s+/): cur is the piece being read, inSep is TRUE inside a run
\* of whitespace.  "".split(/\s+/) is [""].
RECURSIVE splitFrom(_, _, _)
splitFrom(s, cur, inSep) ==
    IF s = <<>> THEN <<cur>>
    ELSE IF IsSpace(Head(s))
         THEN IF inSep THEN splitFrom(Tail(s), cur, TRUE)
              ELSE <<cur>> \o splitFrom(Tail(s), <<>>, TRUE)
         ELSE splitFrom(Tail(s), Append(cur, Head(s)), FALSE)

splitWhitespace(s) == splitFrom(s, <<>>, FALSE)

\* Array.prototype.join(' ')
RECURSIVE joinSpace(_)
joinSpace(parts) ==
    IF parts = <<>> THEN <<>>
    ELSE IF Len(parts) = 1 THEN parts[1]
    ELSE parts[1] \o <<" ">> \o joinSpace(Tail(parts))

\* length of the longest prefix of s without '/', the greedy match of [^/]+
RECURSIVE nameLen(_)
nameLen(s) ==
    IF s = <<>> \/ Head(s) = "/" THEN 0 ELSE 1 + nameLen(Tail(s))

\* the replace without its g flag: only the first match is replaced
expressToOpenApiPathFirstOnly(s) ==
    LET starts == {i \in 1..Len(s) :
                      /\ i + 2 <= Len(s)
                      /\ s[i] = "/"
                      /\ s[i + 1] = ":"
                      /\ nameLen(SubSeq(s, i + 2, Len(s))) > 0}
    IN  IF starts = {} THEN s
        ELSE LET i == CHOOSE k \in starts : \A l \in starts : k <= l
                 n == nameLen(SubSeq(s, i + 2, Len(s)))
             IN  SubSeq(s, 1, i - 1) \o <<"/", "{">>
                     \o SubSeq(s, i + 2, i + 1 + n) \o <<"}">>
                     \o SubSeq(s, i + 2 + n, Len(s))

\* length of the longest prefix of s made of letters, the match of [A-Za-z]+
RECURSIVE wordLen(_)
wordLen(s) ==
    IF s = <<>> \/ LowerChar(Head(s)) \notin {LowerChars[i] : i \in 1..26}
    THEN 0 ELSE 1 + wordLen(Tail(s))

\* the replace with a name pattern that takes letters only: /\/:([A-Za-z]+)/g
RECURSIVE expressToOpenApiPathLetters(_)
expressToOpenApiPathLetters(s) ==
    IF s = <<>> THEN <<>>
    ELSE IF Len(s) >= 3 /\ s[1] = "/" /\ s[2] = ":"
            /\ wordLen(SubSeq(s, 3, Len(s))) > 0
         THEN LET n == wordLen(SubSeq(s, 3, Len(s)))
              IN  <<"/", "{">> \o SubSeq(s, 3, 2 + n) \o <<"}">>
                      \o expressToOpenApiPathLetters(SubSeq(s, 3 + n, Len(s)))
         ELSE <<Head(s)>> \o expressToOpenApiPathLetters(Tail(s))

\* routePath.replace(/\/:([^/]+)/g, '/{$1}'): leftmost matches, left to
\* right, each match replaced, the scan resuming after the match
RECURSIVE expressToOpenApiPath(_)
expressToOpenApiPath(s) ==
    IF s = <<>> THEN <<>>
    ELSE IF Len(s) >= 3 /\ s[1] = "/" /\ s[2] = ":"
            /\ nameLen(SubSeq(s, 3, Len(s))) > 0
         THEN LET n == nameLen(SubSeq(s, 3, Len(s)))
              IN  <<"/", "{">> \o SubSeq(s, 3, 2 + n) \o <<"}">>
                      \o expressToOpenApiPath(SubSeq(s, 3 + n, Len(s)))
         ELSE <<Head(s)>> \o expressToOpenApiPath(Tail(s))

\* ------------------------------------------------ validation schemas (zod)
\* A zod schema is a value with the key "zod"; an object schema lists its
\* properties in declaration order.
ZString == [zod |-> "string"]
ZNumber == [zod |-> "number"]
ZProp(n, z, opt) == [name |-> n, schema |-> z, optional |-> opt]
ZObject(props) == [zod |-> "object", props |-> props]

\* responseDef instanceof z.ZodType
IsZodType(v) == "zod" \in DOMAIN v

RECURSIVE requiredNames(_)
requiredNames(props) ==
    IF props = <<>> THEN <<>>
    ELSE (IF Head(props).optional THEN <<>> ELSE <<Head(props).name>>)
             \o requiredNames(Tail(props))

\* z.toJSONSchema: an object schema becomes {type, properties, required},
\* "required" being emitted only when some property is required; the
\* properties keep their declaration order (Object.entries order)
RECURSIVE toJSONSchema(_)
toJSONSchema(z) ==
    IF z.zod = "object"
    THEN LET base == [type |-> "object",
                      properties |-> [i \in 1..Len(z.props) |->
                          [name |-> z.props[i].name,
                           schema |-> toJSONSchema(z.props[i].schema)]]]
             req == requiredNames(z.props)
         IN  IF req = <<>> THEN base ELSE Put(base, "required", req)
    ELSE [type |-> z.zod]

SeqContains(s, e) == \E i \in 1..Len(s) : s[i] = e

\* ----------------------------------------------- route handlers, contracts
RouteHandlers == {"h1", "h2", "h3"}

UserIdParams == ZObject(<<ZProp("userId", ZString, FALSE)>>)
ListQuery == ZObject(<<ZProp("limit", ZNumber, TRUE), ZProp("q", ZString, FALSE)>>)
ItemBody == ZObject(<<ZProp("name", ZString, FALSE)>>)
ErrorSchema == ZObject(<<ZProp("error", ZString, FALSE), ZProp("code", ZString, TRUE)>>)

\* contract of h1: every descriptive field declared, a bare schema at 200
GetUserConfig ==
    [operationId |-> "getUser",
     summary |-> "Get user by ID",
     description |-> "Retrieves a user",
     tags |-> <<"Users", "Public">>,
     request |-> [params |-> UserIdParams],
     response |-> [content |->
         [c \in {"200"} |-> ZObject(<<ZProp("id", ZString, FALSE)>>)]]]

\* contract of h2: no descriptive field, a body, wrapped responses with and
\* without schema and description
UpdateItemConfig ==
    [request |-> [query |-> ListQuery, body |-> ItemBody],
     response |-> [content |->
         [c \in {"204", "404"} |->
             IF c = "204" THEN [description |-> "Item deleted"]
             ELSE [schema |-> ErrorSchema]]]]

\* contract of h4: some descriptive fields; every request part, with optional
\* and required properties, a query without required property and two
\* request content types; a response content type, a wrapper with schema and
\* description, a bare schema at a code without default description, a
\* wrapper with an empty description and an empty wrapper
SearchItemsConfig ==
    [summary |-> "Search items",
     tags |-> <<"Items">>,
     request |->
        [query |-> ZObject(<<ZProp("limit", ZNumber, TRUE)>>),
         params |-> ZObject(<<ZProp("itemId", ZString, FALSE),
                              ZProp("rev", ZString, TRUE)>>),
         headers |-> ZObject(<<ZProp("x-request-id", ZString, FALSE),
                               ZProp("x-trace", ZString, TRUE)>>),
         body |-> ItemBody,
         contentType |-> <<"application/json", "multipart/form-data">>],
     response |->
        [contentType |-> "text/plain",
         content |->
            [c \in {"201", "418", "400", "500"} |->
                IF c = "201"
                THEN [schema |-> ItemBody, description |-> "Item created"]
                ELSE IF c = "418" THEN ZObject(<<ZProp("teapot", ZString, TRUE)>>)
                ELSE IF c = "400" THEN [schema |-> ErrorSchema, description |-> ""]
                ELSE EmptyObj]]]

\* contract of h5: a description only; no request, no response
PingConfig == [description |-> "Liveness probe"]

\* contract of h6: an operationId and a body that is not an object schema;
\* responses at the remaining codes that have a default description
ErrorsConfig ==
    [operationId |-> "fail",
     request |-> [body |-> ZString, params |-> ZString],
     response |-> [content |->
         [c \in {"401", "403", "422"} |->
             IF c = "401" THEN ErrorSchema
             ELSE IF c = "403" THEN [schema |-> ErrorSchema]
             ELSE EmptyObj]]]

\* getContract(routeHandler) of the framework: the contract withContract
\* attached to the handler, undefined for h3, which was never wrapped
getContract(h) ==
    IF h = "h1" THEN Def(GetUserConfig)
    ELSE IF h = "h2" THEN Def(UpdateItemConfig)
    ELSE IF h = "h4" THEN Def(SearchItemsConfig)
    ELSE IF h = "h5" THEN Def(PingConfig)
    ELSE IF h = "h6" THEN Def(ErrorsConfig)
    ELSE Undefined

\* ------------------------------------------------ security scheme handlers
AuthHandlers == {"a1", "a2"}

\* bearerAuth('jwtAuth', ['read:users'])
JwtDefinition ==
    [name |-> "jwtAuth",
     scheme |-> [type |-> "http", scheme |-> "bearer", bearerFormat |-> "JWT"],
     scopes |-> <<"read:users">>]

\* apiKeyAuth('apiKeyAuth', 'header', 'X-API-Key'): no scopes
ApiKeyDefinition ==
    [name |-> "apiKeyAuth",
     scheme |-> [type |-> "apiKey", in |-> "header", name |-> "X-API-Key"]]

SchemeDefinitions == {JwtDefinition, ApiKeyDefinition}

\* the association tables the route-table specification starts from: the
\* auth handlers are declared when the application's modules load
Registries ==
    { [a \in {} |-> JwtDefinition],
      [a \in {"a1"} |-> JwtDefinition],
      [a \in {"a2"} |-> ApiKeyDefinition],
      [a \in {"a1", "a2"} |-> IF a = "a1" THEN JwtDefinition
                               ELSE ApiKeyDefinition] }

\* securitySchemesRegistry.get(handler)
getSecurityScheme(reg, handler) ==
    IF handler \in DOMAIN reg THEN Def(reg[handler]) ELSE Undefined

\* ------------------------------------------------------- operation pieces
getResponseDescription(statusCode) ==
    CASE statusCode = "200" -> "Successful response"
      [] statusCode = "201" -> "Created successfully"
      [] statusCode = "204" -> "No content"
      [] statusCode = "400" -> "Bad request"
      [] statusCode = "401" -> "Unauthorized"
      [] statusCode = "403" -> "Forbidden"
      [] statusCode = "404" -> "Not found"
      [] statusCode = "422" -> "Validation error"
      [] statusCode = "500" -> "Internal server error"
      [] OTHER -> "Response"

\* parameters whose required flag follows the schema also for path parameters
createParametersSchemaOnly(paramType, schema, alwaysRequired) ==
    LET jsonSchema == toJSONSchema(schema)
    IN  IF jsonSchema.type # "object" \/ "properties" \notin DOMAIN jsonSchema
        THEN <<>>
        ELSE LET required == IF "required" \in DOMAIN jsonSchema
                             THEN jsonSchema.required ELSE <<>>
             IN  [i \in 1..Len(jsonSchema.properties) |->
                     [name |-> jsonSchema.properties[i].name,
                      in |-> paramType,
                      required |->
                          SeqContains(required, jsonSchema.properties[i].name),
                      schema |-> jsonSchema.properties[i].schema]]

createParameters(paramType, schema, alwaysRequired) ==
    LET jsonSchema == toJSONSchema(schema)
    IN  IF jsonSchema.type # "object" \/ "properties" \notin DOMAIN jsonSchema
        THEN <<>>
        ELSE LET required == IF "required" \in DOMAIN jsonSchema
                             THEN jsonSchema.required ELSE <<>>
             IN  [i \in 1..Len(jsonSchema.properties) |->
                     [name |-> jsonSchema.properties[i].name,
                      in |-> paramType,
                      required |-> alwaysRequired
                          \/ SeqContains(required, jsonSchema.properties[i].name),
                      schema |-> jsonSchema.properties[i].schema]]

createRequestBody(bodySchema, contentTypes) ==
    LET schema == toJSONSchema(bodySchema)
    IN  [required |-> TRUE,
         content |-> [ct \in {contentTypes[i] : i \in 1..Len(contentTypes)} |->
                         [schema |-> schema]]]

\* a description that is always the default of the status code
responseDescriptionDefaultOnly(statusCode, responseDef) ==
    getResponseDescription(statusCode)

\* (responseDef instanceof z.ZodType ? undefined : responseDef.description)
\*     || getResponseDescription(statusCode)
responseDescription(statusCode, responseDef) ==
    IF ~IsZodType(responseDef)
       /\ "description" \in DOMAIN responseDef
       /\ responseDef.description # ""
    THEN responseDef.description
    ELSE getResponseDescription(statusCode)

\* a response object that gets a content field also without schema
responseObjectAlwaysContent(description, schema, defaultContentType) ==
    [description |-> description,
     content |-> [ct \in {defaultContentType} |->
         [schema |-> IF schema # Undefined THEN toJSONSchema(schema.v)
                     ELSE [type |-> "object"]]]]

\* responseObject = {description}, with content only if there is a schema
responseObject(description, schema, defaultContentType) ==
    IF schema # Undefined
    THEN [description |-> description,
          content |-> [ct \in {defaultContentType} |->
              [schema |-> toJSONSchema(schema.v)]]]
    ELSE [description |-> description]

createResponses(contract) ==
    IF "response" \notin DOMAIN contract
    THEN [c \in {"200"} |->
             [description |-> "Successful response",
              content |-> [ct \in {"application/json"} |->
                              [schema |-> [type |-> "object"]]]]]
    ELSE LET responseConfig == contract.response
             defaultContentType ==
                 IF "contentType" \in DOMAIN responseConfig
                 THEN responseConfig.contentType ELSE "application/json"
         IN  [statusCode \in DOMAIN responseConfig.content |->
                 LET responseDef == responseConfig.content[statusCode]
                     schema == IF IsZodType(responseDef) THEN Def(responseDef)
                               ELSE Get(responseDef, "schema")
                 IN  responseObject(
                         responseDescription(statusCode, responseDef),
                         schema, defaultContentType)]

\* ---------------------------------------------------------------- document
\* createOpenApiRegistry(config): the document right after construction
createOpenApiRegistry(config) ==
    LET info0 == [title |-> IF "title" \in DOMAIN config
                            THEN config.title ELSE "API Documentation",
                  version |-> IF "version" \in DOMAIN config
                              THEN config.version ELSE "1.0.0",
                  description |-> IF "description" \in DOMAIN config
                                  THEN config.description
                                  ELSE "Generated API documentation"]
        info1 == IF "contact" \in DOMAIN config
                 THEN Put(info0, "contact", config.contact) ELSE info0
        info2 == IF "license" \in DOMAIN config
                 THEN Put(info1, "license", config.license) ELSE info1
    IN  [openapi |-> "3.0.3",
         info |-> info2,
         servers |-> IF "servers" \in DOMAIN config THEN config.servers
                     ELSE <<[url |-> "http://localhost:3030"]>>,
         paths |-> EmptyObj,
         components |-> [schemas |-> EmptyObj, securitySchemes |-> EmptyObj]]

\* ------------------------------------------------------- error contracts
ErrorHandlers == {"e1", "e2", "e3"}

\* the entries of errors.content in Object.entries order (ascending codes)
\* contract of e1: a bare schema, a named wrapper with description, a
\* wrapper without schema
ItemErrorsContract ==
    [errors |-> [content |->
        << [statusCode |-> "400", errorDef |-> ErrorSchema],
           [statusCode |-> "404",
            errorDef |-> [schema |-> ErrorSchema, name |-> "NotFound",
                          description |-> "Item not found"]],
           [statusCode |-> "500",
            errorDef |-> [description |-> "Unexpected failure"]] >>]]

\* contract of e2: a content type; a wrapper without name that replaces
\* Error400, and two wrappers that share one name
ValidationErrorsContract ==
    [errors |-> [contentType |-> "application/problem+json",
                 content |->
        << [statusCode |-> "400",
            errorDef |-> [schema |-> ZObject(<<ZProp("issues", ZString, FALSE)>>)]],
           [statusCode |-> "409",
            errorDef |-> [schema |-> ErrorSchema, name |-> "Conflict"]],
           [statusCode |-> "422",
            errorDef |-> [schema |-> ItemBody, name |-> "Conflict",
                          description |-> "Invalid item"]] >>]]

\* getErrorContract(errorHandler) of the framework: undefined for e3
getErrorContract(e) ==
    IF e = "e1" THEN Def(ItemErrorsContract)
    ELSE IF e = "e2" THEN Def(ValidationErrorsContract)
    ELSE Undefined

\* `Error${statusCode}`
errorName(statusCode) ==
    CASE statusCode = "400" -> "Error400"
      [] statusCode = "404" -> "Error404"
      [] statusCode = "409" -> "Error409"
      [] statusCode = "422" -> "Error422"
      [] statusCode = "500" -> "Error500"
      [] OTHER -> "Error"

\* {$ref: `#/components/schemas/${schemaName}`}: the segments of the pointer
schemaRef(schemaName) ==
    [r \in {"$ref"} |-> <<"#", "components", "schemas", schemaName>>]

\* an iteration that keys the response by 'Error<code>' also for a named entry
registerErrorEntryCodeKey(components, entry, defaultContentType) ==
    LET errorDef == entry.errorDef
        schema == IF IsZodType(errorDef) THEN Def(errorDef)
                  ELSE Get(errorDef, "schema")
        description == responseDescription(entry.statusCode, errorDef)
        schemaName == IF ~IsZodType(errorDef) /\ "name" \in DOMAIN errorDef
                         /\ errorDef.name # ""
                      THEN errorDef.name ELSE errorName(entry.statusCode)
    IN  IF schema = Undefined THEN components
        ELSE [components EXCEPT
                 !.schemas = Put(@, schemaName, toJSONSchema(schema.v)),
                 !.responses = Put(@, errorName(entry.statusCode),
                     [description |-> description,
                      content |-> [ct \in {defaultContentType} |->
                          [schema |-> schemaRef(schemaName)]]])]

\* an iteration that stores the response and not the schema it refers to
registerErrorEntryResponseOnly(components, entry, defaultContentType) ==
    LET errorDef == entry.errorDef
        schema == IF IsZodType(errorDef) THEN Def(errorDef)
                  ELSE Get(errorDef, "schema")
        description == responseDescription(entry.statusCode, errorDef)
        schemaName == IF ~IsZodType(errorDef) /\ "name" \in DOMAIN errorDef
                         /\ errorDef.name # ""
                      THEN errorDef.name ELSE errorName(entry.statusCode)
    IN  IF schema = Undefined THEN components
        ELSE [components EXCEPT
                 !.responses = Put(@, schemaName,
                     [description |-> description,
                      content |-> [ct \in {defaultContentType} |->
                          [schema |-> schemaRef(schemaName)]]])]

\* one iteration of the forEach of registerErrorHandler
registerErrorEntry(components, entry, defaultContentType) ==
    LET errorDef == entry.errorDef
        schema == IF IsZodType(errorDef) THEN Def(errorDef)
                  ELSE Get(errorDef, "schema")
        description == responseDescription(entry.statusCode, errorDef)
        schemaName == IF ~IsZodType(errorDef) /\ "name" \in DOMAIN errorDef
                         /\ errorDef.name # ""
                      THEN errorDef.name ELSE errorName(entry.statusCode)
    IN  IF schema = Undefined THEN components
        ELSE [components EXCEPT
                 !.schemas = Put(@, schemaName, toJSONSchema(schema.v)),
                 !.responses = Put(@, schemaName,
                     [description |-> description,
                      content |-> [ct \in {defaultContentType} |->
                          [schema |-> schemaRef(schemaName)]]])]

RECURSIVE registerErrorEntries(_, _, _)
registerErrorEntries(components, entries, defaultContentType) ==
    IF entries = <<>> THEN components
    ELSE registerErrorEntries(
             registerErrorEntry(components, Head(entries), defaultContentType),
             Tail(entries), defaultContentType)

\* registry.registerErrorHandler(errorHandler)
registerErrorHandler(doc, errorHandler) ==
    IF getErrorContract(errorHandler) = Undefined THEN doc
    ELSE LET errorConfig == getErrorContract(errorHandler).v
             ensured == IF "responses" \in DOMAIN doc.components
                        THEN doc.components
                        ELSE Put(doc.components, "responses", EmptyObj)
             defaultContentType ==
                 IF "contentType" \in DOMAIN errorConfig.errors
                 THEN errorConfig.errors.contentType ELSE "application/json"
         IN  [doc EXCEPT !.components =
                 registerErrorEntries(ensured, errorConfig.errors.content,
                                      defaultContentType)]

\* a reset that goes back to the components of a new registry
resetEverything(doc) ==
    [doc EXCEPT
        !.paths = EmptyObj,
        !.components = [schemas |-> EmptyObj, securitySchemes |-> EmptyObj]]

\* a reset that empties the component maps and keeps the paths
resetComponentsOnly(doc) ==
    [doc EXCEPT
        !.components = Put(Put(@, "schemas", EmptyObj),
                           "securitySchemes", EmptyObj)]

\* registry.reset()
reset(doc) ==
    [doc EXCEPT
        !.paths = EmptyObj,
        !.components = Put(Put(@, "schemas", EmptyObj),
                           "securitySchemes", EmptyObj)]

\* a registerSecurityScheme that stores nothing
registerSecuritySchemeDropped(doc, name, scheme) == doc

\* registry.registerSecurityScheme(name, scheme)
registerSecurityScheme(doc, name, scheme) ==
    [doc EXCEPT !.components =
        Put(@, "securitySchemes", Put(@.securitySchemes, name, scheme))]

\* a method list for bodies that lost 'patch'
BodyMethodsNoPatch == {<<"p","o","s","t">>, <<"p","u","t">>}

\* ['post', 'put', 'patch']
BodyMethods == {<<"p","o","s","t">>, <<"p","u","t">>, <<"p","a","t","c","h">>}

\* the security list registerRoute builds from the looked-up scheme:
\* [{[name]: scopes || []}], or [] when no scheme was found
securityRequirement(securityScheme) ==
    IF securityScheme # Undefined
    THEN <<[n \in {securityScheme.v.name} |->
               IF "scopes" \in DOMAIN securityScheme.v
               THEN securityScheme.v.scopes ELSE <<>>]>>
    ELSE <<>>

\* the security field set without the length test
withSecurityAlways(operation, security) == Put(operation, "security", security)

\* if (security.length > 0) operation.security = security
withSecurity(operation, security) ==
    IF Len(security) > 0 THEN Put(operation, "security", security)
    ELSE operation

\* if (apiConfig.operationId) operation.operationId = apiConfig.operationId
withOperationId(operation, apiConfig) ==
    IF "operationId" \in DOMAIN apiConfig /\ apiConfig.operationId # ""
    THEN Put(operation, "operationId", apiConfig.operationId)
    ELSE operation

\* the requestBody step of registerRoute
withRequestBody(operation, method, request) ==
    IF toLowerCase(method) \in BodyMethods /\ "body" \in DOMAIN request
    THEN Put(operation, "requestBody",
             createRequestBody(request.body,
                 IF "contentType" \in DOMAIN request
                 THEN request.contentType ELSE <<"application/json">>))
    ELSE operation

\* the parameters registerRoute collects: query, then path, then header
operationParameters(request) ==
    (IF "query" \in DOMAIN request
     THEN createParameters("query", request.query, FALSE) ELSE <<>>)
    \o (IF "params" \in DOMAIN request
        THEN createParameters("path", request.params, TRUE) ELSE <<>>)
    \o (IF "headers" \in DOMAIN request
        THEN createParameters("header", request.headers, FALSE) ELSE <<>>)

\* a path item that always starts empty
pathItemFresh(doc, openApiPath) == EmptyObj

\* openApiSchema.paths[openApiPath] || {}
pathItemOf(doc, openApiPath) ==
    IF openApiPath \in DOMAIN doc.paths THEN doc.paths[openApiPath]
    ELSE EmptyObj

\* registerRoute past its contract check: the document it leaves for the
\* contract apiConfig; authHandler is None when the argument is undefined
\* a store that keeps the fields of the operation it replaces
storeOperationMerged(pathItem, method, operation) ==
    LET m == toLowerCase(method)
        earlier == IF m \in DOMAIN pathItem THEN pathItem[m] ELSE EmptyObj
    IN  Put(pathItem, m,
            [k \in DOMAIN earlier \cup DOMAIN operation |->
                IF k \in DOMAIN operation THEN operation[k] ELSE earlier[k]])

\* pathItem[method.toLowerCase()] = operation
storeOperation(pathItem, method, operation) ==
    Put(pathItem, toLowerCase(method), operation)

registerOperation(doc, reg, method, routePath, apiConfig, authHandler) ==
    LET securityScheme == IF authHandler # None
                          THEN getSecurityScheme(reg, authHandler)
                          ELSE Undefined
        doc1 == IF securityScheme # Undefined
                THEN registerSecurityScheme(doc, securityScheme.v.name,
                                            securityScheme.v.scheme)
                ELSE doc
        security == securityRequirement(securityScheme)
        openApiPath == expressToOpenApiPath(routePath)
        pathItem == pathItemOf(doc1, openApiPath)
        request == IF "request" \in DOMAIN apiConfig
                   THEN apiConfig.request ELSE EmptyObj
        operation == [summary |-> Get(apiConfig, "summary"),
                      description |-> Get(apiConfig, "description"),
                      tags |-> Get(apiConfig, "tags"),
                      parameters |-> operationParameters(request),
                      responses |-> createResponses(apiConfig)]
        complete == withRequestBody(
                        withSecurity(withOperationId(operation, apiConfig),
                                     security),
                        method, request)
    IN  [doc1 EXCEPT !.paths =
            Put(@, openApiPath, storeOperation(pathItem, method, complete))]

\* a registerRoute without the contract check: an empty contract stands in
registerRouteAnyHandler(doc, reg, method, routePath, routeHandler, authHandler) ==
    registerOperation(doc, reg, method, routePath,
                      IF getContract(routeHandler) = Undefined THEN EmptyObj
                      ELSE getContract(routeHandler).v,
                      authHandler)

\* a registerRoute that registers the security scheme before the contract
\* check
registerRouteSchemeFirst(doc, reg, method, routePath, routeHandler, authHandler) ==
    LET securityScheme == IF authHandler # None
                          THEN getSecurityScheme(reg, authHandler)
                          ELSE Undefined
        doc1 == IF securityScheme # Undefined
                THEN registerSecurityScheme(doc, securityScheme.v.name,
                                            securityScheme.v.scheme)
                ELSE doc
    IN  IF getContract(routeHandler) = Undefined THEN doc1
        ELSE registerOperation(doc, reg, method, routePath,
                               getContract(routeHandler).v, authHandler)

\* registerRoute(method, routePath, routeHandler, authHandler): a handler
\* without contract is skipped
registerRoute(doc, reg, method, routePath, routeHandler, authHandler) ==
    IF getContract(routeHandler) = Undefined THEN doc
    ELSE registerOperation(doc, reg, method, routePath,
                           getContract(routeHandler).v, authHandler)

\* ------------------------------------------------------------ route tables
\* "GET /a/:i"
KeyGetUser == <<"G","E","T"," ","/","a","/",":","i">>
\* "get /a/{i}": the same operation slot as KeyGetUser
KeyGetUserBrace == <<"g","e","t"," ","/","a","/","{","i","}">>
\* "Put /a/:i"
KeyPutUser == <<"P","u","t"," ","/","a","/",":","i">>
\* " post  /b c": surrounding and repeated whitespace, a path of two parts
KeySpaced == <<" ","p","o","s","t"," "," ","/","b"," ","c">>
\* "MOUNT /d"
KeyMount == <<"M","O","U","N","T"," ","/","d">>
\* "GET ": no path part
KeyNoPath == <<"G","E","T"," ">>
\* " ": no method part
KeyBlank == <<" ">>

RouteKeys == {KeyGetUser, KeyGetUserBrace, KeyPutUser, KeySpaced,
              KeyMount, KeyNoPath, KeyBlank}

\* AuthPolicy of the framework
AuthPolicyDisabled == "disabled"
AuthPolicyRequired == "required"

\* a route-table value is a bare handler function [fn |-> h] or a route
\* description {handler, authHandler?, authPolicy?}
PlainValues == { [fn |-> "h1"], [fn |-> "h3"] }

AuthValues ==
    { [fn |-> "h1"],
      [handler |-> "h2", authHandler |-> "a1", authPolicy |-> AuthPolicyRequired],
      [handler |-> "h1", authHandler |-> "a1", authPolicy |-> AuthPolicyDisabled],
      [handler |-> "h2", authHandler |-> "a2"],
      [handler |-> "h1", authPolicy |-> AuthPolicyRequired],
      [handler |-> "h3", authHandler |-> "a1", authPolicy |-> AuthPolicyRequired] }

\* every key with the handlers that need no authentication
KeyEntries == {[key |-> k, value |-> v] : k \in RouteKeys, v \in PlainValues}

\* the well-formed keys with every authentication setting
AuthEntries ==
    {[key |-> k, value |-> v] :
        k \in {KeyGetUser, KeyGetUserBrace, KeyPutUser}, v \in AuthValues}

\* a table is the sequence of its entries in Object.entries order; the keys
\* of an object are distinct
DistinctKeys(t) ==
    \A i, j \in 1..Len(t) : i # j => t[i].key # t[j].key

RECURSIVE TablesOfLen(_, _)
TablesOfLen(entries, n) ==
    IF n = 0 THEN {<<>>}
    ELSE {Append(t, e) : t \in TablesOfLen(entries, n - 1), e \in entries}

TablesOver(entries) ==
    {t \in UNION {TablesOfLen(entries, n) : n \in 0..MaxRoutes} :
        DistinctKeys(t)}

\* the NodeKit context the callers pass: config.appAuthHandler / appAuthPolicy
NodeKits ==
    { EmptyObj,
      [appAuthHandler |-> "a2", appAuthPolicy |-> AuthPolicyRequired] }

\* the OpenApiRegistryConfig values the registries are built with
Configs ==
    { EmptyObj,
      [title |-> "Test API", path |-> <<"/","c","d">>,
       swaggerJsonPath |-> <<"/","s">>] }

\* a method list that lost 'put'
RecognizedMethodsNoPut ==
    {<<"g","e","t">>, <<"p","o","s","t">>,
     <<"p","a","t","c","h">>, <<"d","e","l","e","t","e">>,
     <<"h","e","a","d">>, <<"o","p","t","i","o","n","s">>}

\* a method list that also takes the mount directive
RecognizedMethodsWithMount ==
    {<<"g","e","t">>, <<"p","o","s","t">>, <<"p","u","t">>,
     <<"p","a","t","c","h">>, <<"d","e","l","e","t","e">>,
     <<"h","e","a","d">>, <<"o","p","t","i","o","n","s">>,
     <<"m","o","u","n","t">>}

RecognizedMethods ==
    {<<"g","e","t">>, <<"p","o","s","t">>, <<"p","u","t">>,
     <<"p","a","t","c","h">>, <<"d","e","l","e","t","e">>,
     <<"h","e","a","d">>, <<"o","p","t","i","o","n","s">>}

\* the route description of a table value (typeof value === 'function')
normalizeDescription(handlerOrDescription) ==
    IF "fn" \in DOMAIN handlerOrDescription
    THEN [handler |-> handlerOrDescription.fn]
    ELSE handlerOrDescription

\* a resolution that prefers the default handler of the context
routeAuthHandlerDefaultFirst(description, context) ==
    IF "appAuthHandler" \in DOMAIN context THEN context.appAuthHandler
    ELSE IF "authHandler" \in DOMAIN description
         THEN description.authHandler ELSE None

\* the authHandler argument buildOpenApiSchema passes to registerRoute: the
\* route's own handler; neither description.authPolicy nor the context the
\* callers hand to registerRoutes as second argument is read
routeAuthHandler(description, context) ==
    IF "authHandler" \in DOMAIN description
    THEN description.authHandler ELSE None

\* one iteration of the forEach of buildOpenApiSchema
buildEntry(doc, reg, nodekit, entry) ==
    LET parts == splitWhitespace(trim(entry.key))
        rawMethod == Head(parts)
        rawPathParts == Tail(parts)
    IN  IF rawMethod = <<>> \/ Len(rawPathParts) = 0 THEN doc
        ELSE LET methodLower == toLowerCase(rawMethod)
             IN  IF methodLower \notin RecognizedMethods THEN doc
                 ELSE LET routePath == joinSpace(rawPathParts)
                          description == normalizeDescription(entry.value)
                      IN  registerRoute(doc, reg, methodLower, routePath,
                                        description.handler,
                                        routeAuthHandler(description, nodekit))

\* buildOpenApiSchema: the entries in order
RECURSIVE buildOpenApiSchema(_, _, _, _)
buildOpenApiSchema(doc, reg, nodekit, table) ==
    IF table = <<>> THEN doc
    ELSE buildOpenApiSchema(buildEntry(doc, reg, nodekit, Head(table)),
                            reg, nodekit, Tail(table))

\* the key of the mount entry registerRoutes adds: 'MOUNT /api/docs'
MountKey == <<"M","O","U","N","T"," ","/","a","p","i","/","d","o","c","s">>

\* the table registerRoutes returns: {...routes, 'MOUNT /api/docs': {...}}
returnedRoutes(table, config) ==
    IF \E i \in 1..Len(table) : table[i].key = MountKey
    THEN [i \in 1..Len(table) |->
             IF table[i].key = MountKey
             THEN [key |-> MountKey, value |-> [handler |-> "swaggerUi"]]
             ELSE table[i]]
    ELSE Append(table, [key |-> MountKey, value |-> [handler |-> "swaggerUi"]])

\* what the handler of the mount entry puts on its router: one router.use
\* at '/', serving the interactive UI set up with the document itself
\* (swaggerUi.setup(getOpenApiSchema())); config is not read
mountHandler(config) ==
    { [path |-> <<"/">>, serves |-> "swaggerUi", document |-> "embedded"] }

\* ------------------------------------------------------------------- state
VARIABLES
    config,                   \* the config the registry was created with
    nodekit,                  \* the NodeKit context of the application
    routes,                   \* the route table of the application
    securitySchemesRegistry,  \* WeakMap: auth handler -> scheme definition
    openApiSchema,            \* the document of the registry
    microtasks,               \* build callbacks queued by queueMicrotask
    call                      \* the latest call on the registry and its
                              \* arguments and result

vars == <<config, nodekit, routes, securitySchemesRegistry, openApiSchema,
          microtasks, call>>

world == <<config, nodekit, routes>>

\* the application declared its route table and its auth handlers; the
\* registry was just created
Init ==
    /\ \/ /\ routes \in TablesOver(KeyEntries)
          /\ nodekit = EmptyObj
          /\ securitySchemesRegistry \in Registries
          /\ DOMAIN securitySchemesRegistry \in {{}, AuthHandlers}
          /\ config \in Configs
       \/ /\ routes \in TablesOver(AuthEntries)
          /\ nodekit \in NodeKits
          /\ securitySchemesRegistry \in Registries
          /\ config = EmptyObj
    /\ openApiSchema = createOpenApiRegistry(config)
    /\ microtasks = <<>>
    /\ call = [op |-> "createOpenApiRegistry"]

\* an association that keeps the first definition of a handler
WithSecuritySchemeKeepFirst(handler, definition) ==
    /\ securitySchemesRegistry' =
           IF handler \in DOMAIN securitySchemesRegistry
           THEN securitySchemesRegistry
           ELSE Put(securitySchemesRegistry, handler, definition)
    /\ call' = [op |-> "withSecurityScheme", handler |-> handler,
                definition |-> definition, ret |-> handler]
    /\ UNCHANGED <<world, openApiSchema, microtasks>>

\* an association that returns a new function "w" wrapping the handler
WithSecuritySchemeWrapping(handler, definition) ==
    /\ securitySchemesRegistry' =
           Put(securitySchemesRegistry, handler, definition)
    /\ call' = [op |-> "withSecurityScheme", handler |-> handler,
                definition |-> definition, ret |-> "w"]
    /\ UNCHANGED <<world, openApiSchema, microtasks>>

\* withSecurityScheme(definition)(handler), i.e. bearerAuth(..)(handler) etc.:
\* securitySchemesRegistry.set(handler, definition); return handler
WithSecurityScheme(handler, definition) ==
    /\ securitySchemesRegistry' =
           Put(securitySchemesRegistry, handler, definition)
    /\ call' = [op |-> "withSecurityScheme", handler |-> handler,
                definition |-> definition, ret |-> handler]
    /\ UNCHANGED <<world, openApiSchema, microtasks>>

\* registerRoutes(routes): queues the build with queueMicrotask and returns
\* the table with the mount entry; the document is not touched
RegisterRoutes ==
    /\ Len(microtasks) < MaxQueue
    /\ microtasks' = Append(microtasks, [routes |-> routes])
    /\ call' = [op |-> "registerRoutes", ret |-> returnedRoutes(routes, config)]
    /\ UNCHANGED <<world, securitySchemesRegistry, openApiSchema>>

\* the microtask queued by registerRoutes runs: buildOpenApiSchema()
RunMicrotask ==
    /\ microtasks # <<>>
    /\ openApiSchema' = buildOpenApiSchema(openApiSchema,
                            securitySchemesRegistry, nodekit,
                            Head(microtasks).routes)
    /\ microtasks' = Tail(microtasks)
    /\ call' = [op |-> "buildOpenApiSchema"]
    /\ UNCHANGED <<world, securitySchemesRegistry>>

\* a reset that also forgets the associations of the auth handlers
ResetWithAssociations ==
    /\ openApiSchema' = reset(openApiSchema)
    /\ securitySchemesRegistry' = EmptyObj
    /\ call' = [op |-> "reset"]
    /\ UNCHANGED <<world, microtasks>>

\* registry.reset()
Reset ==
    /\ openApiSchema' = reset(openApiSchema)
    /\ call' = [op |-> "reset"]
    /\ UNCHANGED <<world, securitySchemesRegistry, microtasks>>

\* registry.registerRoute(method, routePath, routeHandler, authHandler)
RegisterRoute(method, routePath, routeHandler, authHandler) ==
    /\ openApiSchema' = registerRoute(openApiSchema, securitySchemesRegistry,
                                      method, routePath, routeHandler,
                                      authHandler)
    /\ call' = [op |-> "registerRoute", method |-> method,
                routePath |-> routePath, routeHandler |-> routeHandler,
                authHandler |-> authHandler]
    /\ UNCHANGED <<world, securitySchemesRegistry, microtasks>>

Next ==
    \/ RegisterRoutes
    \/ RunMicrotask
    \/ Reset

Spec == Init /\ [][Next]_vars

\* ------------------------------------------- direct calls on the registry
\* the arguments of the direct registerRoute calls
DirectMethods == {<<"g","e","t">>, <<"P","U","T">>}
DirectPaths == {<<"/","a","/",":","i">>}

InitRoute ==
    /\ config = EmptyObj
    /\ nodekit = EmptyObj
    /\ routes = <<>>
    /\ securitySchemesRegistry = EmptyObj
    /\ openApiSchema = createOpenApiRegistry(config)
    /\ microtasks = <<>>
    /\ call = [op |-> "createOpenApiRegistry"]

NextRoute ==
    \/ \E a \in AuthHandlers, d \in SchemeDefinitions : WithSecurityScheme(a, d)
    \/ \E m \in DirectMethods, p \in DirectPaths, h \in RouteHandlers,
          a \in AuthHandlers \cup {None} : RegisterRoute(m, p, h, a)
    \/ Reset

SpecRoute == InitRoute /\ [][NextRoute]_vars

\* ------------------------------------------------ path conversion on its own
PathChars == {"/", ":", "a", "{"}
PathStrings == UNION {[1..n -> PathChars] : n \in 0..MaxPathLen}

\* registerRoute with every short path, then with the path key it produced,
\* and reset
NextPath ==
    \/ \E p \in PathStrings \cup DOMAIN openApiSchema.paths :
          /\ DOMAIN openApiSchema.paths = {} \/ p \in DOMAIN openApiSchema.paths
          /\ RegisterRoute(<<"g","e","t">>, p, "h1", None)
    \/ Reset

SpecPath == InitRoute /\ [][NextPath]_vars

\* ---------------------------------------- several operations, several paths
\* the slot registerRoute(method, routePath, ..) writes
slotOf(method, routePath) ==
    <<expressToOpenApiPath(routePath), toLowerCase(method)>>

\* the slots of the document: <<path key, method key>>
documentSlots(doc) ==
    UNION {{<<pth, m>> : m \in DOMAIN doc.paths[pth]} : pth \in DOMAIN doc.paths}

\* the call keeps the document within MaxOperations operations
WithinOperations(method, routePath) ==
    \/ slotOf(method, routePath) \in documentSlots(openApiSchema)
    \/ Cardinality(documentSlots(openApiSchema)) < MaxOperations

\* the one path of the specifications that vary everything else
ContractPath == <<"/","a","/",":","i">>

FrameMethods == {<<"g","e","t">>, <<"P","U","T">>, <<"p","o","s","t">>}
FramePaths == {<<"/","a","/",":","i">>, <<"/","a","/","{","i","}">>, <<"/","b">>}
FrameHandlers == {"h1", "h2"}

\* a1 was declared with bearerAuth, a2 was not declared
InitFrame ==
    /\ config = EmptyObj
    /\ nodekit = EmptyObj
    /\ routes = <<>>
    /\ securitySchemesRegistry = [a \in {"a1"} |-> JwtDefinition]
    /\ openApiSchema = createOpenApiRegistry(config)
    /\ microtasks = <<>>
    /\ call = [op |-> "createOpenApiRegistry"]

NextFrame ==
    \E m \in FrameMethods, p \in FramePaths, h \in FrameHandlers,
       a \in {None, "a1"} :
        /\ WithinOperations(m, p)
        /\ RegisterRoute(m, p, h, a)

SpecFrame == InitFrame /\ [][NextFrame]_vars

\* ------------------------------------ error handlers, components and reset
\* registry.registerErrorHandler(errorHandler)
RegisterErrorHandler(errorHandler) ==
    /\ openApiSchema' = registerErrorHandler(openApiSchema, errorHandler)
    /\ call' = [op |-> "registerErrorHandler", errorHandler |-> errorHandler]
    /\ UNCHANGED <<world, securitySchemesRegistry, microtasks>>

\* a config with every field of the document metadata
FullConfig ==
    [title |-> "Super API",
     version |-> "2.0.0",
     description |-> "Custom API description",
     contact |-> [name |-> "API Team", email |-> "api@example.com"],
     license |-> [name |-> "MIT"],
     servers |-> <<[url |-> "https://api.example.com"],
                   [url |-> "https://staging.example.com"]>>,
     path |-> <<"/","d","o","c","s">>]

RegistryConfigs == Configs \cup {FullConfig}

\* the route table of the application: one route with a scheme
ComponentsTable ==
    << [key |-> KeyGetUser,
        value |-> [handler |-> "h2", authHandler |-> "a1",
                   authPolicy |-> AuthPolicyRequired]] >>

InitComponents ==
    /\ config \in RegistryConfigs
    /\ nodekit = EmptyObj
    /\ routes = ComponentsTable
    /\ securitySchemesRegistry = [a \in {"a1"} |-> JwtDefinition]
    /\ openApiSchema = createOpenApiRegistry(config)
    /\ microtasks = <<>>
    /\ call = [op |-> "createOpenApiRegistry"]

NextComponents ==
    \/ \E e \in ErrorHandlers : RegisterErrorHandler(e)
    \/ \E h \in {"h1", "h3"}, a \in {None, "a1"} :
          RegisterRoute(<<"g","e","t">>, ContractPath, h, a)
    \/ RegisterRoutes
    \/ RunMicrotask
    \/ Reset

SpecComponents == InitComponents /\ [][NextComponents]_vars

\* ------------------------------------------ security schemes of a registry
\* registry.registerSecurityScheme(name, scheme)
RegisterSecurityScheme(name, scheme) ==
    /\ openApiSchema' = registerSecurityScheme(openApiSchema, name, scheme)
    /\ call' = [op |-> "registerSecurityScheme", name |-> name,
                scheme |-> scheme]
    /\ UNCHANGED <<world, securitySchemesRegistry, microtasks>>

\* {type: 'http', scheme: 'basic'}
BasicScheme == [type |-> "http", scheme |-> "basic"]

\* the scheme names the application registers by hand: one that a handler's
\* definition also uses and one of its own
SchemeNames == {"jwtAuth", "basicAuth"}

\* 'GET /a/:i' under the JWT handler, 'Put /a/:i' under the API key handler
SecurityTable ==
    << [key |-> KeyGetUser,
        value |-> [handler |-> "h1", authHandler |-> "a1",
                   authPolicy |-> AuthPolicyRequired]],
       [key |-> KeyPutUser,
        value |-> [handler |-> "h2", authHandler |-> "a2"]] >>

SecurityMethods == {<<"g","e","t">>, <<"P","O","S","T">>}
SecurityPath == <<"/","b">>

InitSecurity ==
    /\ config = EmptyObj
    /\ nodekit = EmptyObj
    /\ routes = SecurityTable
    /\ securitySchemesRegistry =
           [a \in AuthHandlers |->
               IF a = "a1" THEN JwtDefinition ELSE ApiKeyDefinition]
    /\ openApiSchema = createOpenApiRegistry(config)
    /\ microtasks = <<>>
    /\ call = [op |-> "createOpenApiRegistry"]

NextSecurity ==
    \/ \E m \in SecurityMethods, h \in {"h1", "h3"},
          a \in {None} \cup AuthHandlers :
          RegisterRoute(m, SecurityPath, h, a)
    \/ \E n \in SchemeNames : RegisterSecurityScheme(n, BasicScheme)
    \/ RegisterRoutes
    \/ RunMicrotask
    \/ Reset

SpecSecurity == InitSecurity /\ [][NextSecurity]_vars

\* --------------------------------------- every contract under every method
ContractMethods ==
    {<<"g","e","t">>, <<"p","o","s","t">>, <<"P","U","T">>,
     <<"P","a","t","c","h">>, <<"d","e","l","e","t","e">>,
     <<"o","p","t","i","o","n","s">>}
ContractHandlers == {"h1", "h2", "h3", "h4", "h5", "h6"}

NextContract ==
    \E m \in ContractMethods, h \in ContractHandlers :
        /\ WithinOperations(m, ContractPath)
        /\ RegisterRoute(m, ContractPath, h, None)

SpecContract == InitRoute /\ [][NextContract]_vars

\* ----------------------------------------------- vocabulary of the claims
\* the seven recognized HTTP methods, lower-case
SevenMethods ==
    {<<"g","e","t">>, <<"p","o","s","t">>, <<"p","u","t">>,
     <<"p","a","t","c","h">>, <<"d","e","l","e","t","e">>,
     <<"h","e","a","d">>, <<"o","p","t","i","o","n","s">>}

KeyParts(e) == splitWhitespace(trim(e.key))
EntryMethod(e) == toLowerCase(Head(KeyParts(e)))
EntryPath(e) == joinSpace(Tail(KeyParts(e)))
EntryDescription(e) ==
    IF "fn" \in DOMAIN e.value THEN [handler |-> e.value.fn] ELSE e.value

\* the key has a method part and a path part and the method is recognized
KeyAccepted(e) ==
    /\ Head(KeyParts(e)) # <<>>
    /\ Len(KeyParts(e)) >= 2
    /\ EntryMethod(e) \in SevenMethods

ContractBearing(e) == getContract(EntryDescription(e).handler) # Undefined
Documented(e) == KeyAccepted(e) /\ ContractBearing(e)

\* the place of an operation in the document: <<path key, method key>>
EntrySlot(e) == <<expressToOpenApiPath(EntryPath(e)), EntryMethod(e)>>
HasOperation(doc, slot) ==
    /\ slot[1] \in DOMAIN doc.paths
    /\ slot[2] \in DOMAIN doc.paths[slot[1]]
OperationAt(doc, slot) == doc.paths[slot[1]][slot[2]]
SlotsOf(doc) ==
    UNION {{<<pth, m>> : m \in DOMAIN doc.paths[pth]} : pth \in DOMAIN doc.paths}

\* no later documented entry of the table writes the slot of entry i
LastWriter(t, i) ==
    \A j \in (i + 1)..Len(t) :
        Documented(t[j]) => EntrySlot(t[j]) # EntrySlot(t[i])

\* policy resolution of the specification: route, then context, then disabled
EffectivePolicy(description, context) ==
    IF "authPolicy" \in DOMAIN description THEN description.authPolicy
    ELSE IF "appAuthPolicy" \in DOMAIN context THEN context.appAuthPolicy
    ELSE AuthPolicyDisabled

\* the one-entry requirement of a scheme definition
RequirementOf(d) ==
    <<[n \in {d.name} |-> IF "scopes" \in DOMAIN d THEN d.scopes ELSE <<>>]>>

HasSecurityOf(doc, op, d) ==
    /\ "security" \in DOMAIN op
    /\ op.security = RequirementOf(d)
    /\ d.name \in DOMAIN doc.components.securitySchemes
    /\ doc.components.securitySchemes[d.name] = d.scheme

\* a build callback runs in this step
BuildStep == microtasks # <<>> /\ microtasks' = Tail(microtasks)

Built == call.op = "buildOpenApiSchema"

\* the slot the latest direct registerRoute call wrote
CallSlot(c) == <<expressToOpenApiPath(c.routePath), toLowerCase(c.method)>>

\* --------------------------------------------------------------- the claims

\* C1: when registerRoutes(routes) has returned, the document already holds
\* an operation for every recognized-method, contract-bearing entry of the
\* table, so no reader sees the document before it is populated.
C1_PopulatedOnReturn ==
    call.op = "registerRoutes" =>
        \A i \in 1..Len(routes) :
            Documented(routes[i]) =>
                HasOperation(openApiSchema, EntrySlot(routes[i]))

\* C2: a route whose authPolicy is disabled registers an operation without
\* security field, even when its authHandler is associated with a scheme.
C2_DisabledPolicyNoSecurity ==
    Built =>
        \A i \in 1..Len(routes) :
            ( /\ Documented(routes[i])
              /\ LastWriter(routes, i)
              /\ EffectivePolicy(EntryDescription(routes[i]), nodekit)
                     = AuthPolicyDisabled
              /\ "authPolicy" \in DOMAIN EntryDescription(routes[i]) )
            => "security" \notin
                   DOMAIN OperationAt(openApiSchema, EntrySlot(routes[i]))

\* C3: a route without authHandler of its own, whose effective policy is not
\* disabled, uses the default handler of the context: when that handler is
\* associated with a scheme, the operation requires that scheme and the
\* scheme is in components.securitySchemes.
C3_DefaultHandlerUsed ==
    Built =>
        \A i \in 1..Len(routes) :
            ( /\ Documented(routes[i])
              /\ LastWriter(routes, i)
              /\ "authHandler" \notin DOMAIN EntryDescription(routes[i])
              /\ EffectivePolicy(EntryDescription(routes[i]), nodekit)
                     # AuthPolicyDisabled
              /\ "appAuthHandler" \in DOMAIN nodekit
              /\ nodekit.appAuthHandler \in DOMAIN securitySchemesRegistry )
            => HasSecurityOf(openApiSchema,
                   OperationAt(openApiSchema, EntrySlot(routes[i])),
                   securitySchemesRegistry[nodekit.appAuthHandler])

\* C4: when a route declares its own authHandler, a default handler exists
\* and the effective policy is not disabled, the security of the operation
\* comes from the scheme of the route's handler, never from the default
\* handler's scheme.
C4_RouteHandlerBeforeDefault ==
    Built =>
        \A i \in 1..Len(routes) :
            ( /\ Documented(routes[i])
              /\ LastWriter(routes, i)
              /\ "authHandler" \in DOMAIN EntryDescription(routes[i])
              /\ "appAuthHandler" \in DOMAIN nodekit
              /\ EffectivePolicy(EntryDescription(routes[i]), nodekit)
                     # AuthPolicyDisabled )
            => LET a == EntryDescription(routes[i]).authHandler
                   op == OperationAt(openApiSchema, EntrySlot(routes[i]))
               IN  IF a \in DOMAIN securitySchemesRegistry
                   THEN /\ "security" \in DOMAIN op
                        /\ op.security =
                               RequirementOf(securitySchemesRegistry[a])
                   ELSE "security" \notin DOMAIN op

\* C4 happens: route handler a1 (jwtAuth) and default handler a2
\* (apiKeyAuth) are both associated, and the operation requires jwtAuth
C4_Witness ==
    /\ Built
    /\ "appAuthHandler" \in DOMAIN nodekit
    /\ DOMAIN securitySchemesRegistry = {"a1", "a2"}
    /\ \E i \in 1..Len(routes) :
          /\ Documented(routes[i])
          /\ LastWriter(routes, i)
          /\ "authHandler" \in DOMAIN EntryDescription(routes[i])
          /\ EntryDescription(routes[i]).authHandler = "a1"
          /\ EffectivePolicy(EntryDescription(routes[i]), nodekit)
                 = AuthPolicyRequired
          /\ OperationAt(openApiSchema, EntrySlot(routes[i])).security
                 = RequirementOf(JwtDefinition)

\* C5: registerRoute with a handler associated with definition d stores
\* d.scheme under components.securitySchemes[d.name] and sets
\* operation.security to the one map {d.name: d.scopes}, the scopes being
\* the empty list when d has none.
C5_SchemeAndRequirement ==
    ( /\ call.op = "registerRoute"
      /\ getContract(call.routeHandler) # Undefined
      /\ call.authHandler \in DOMAIN securitySchemesRegistry )
    => HasSecurityOf(openApiSchema, OperationAt(openApiSchema, CallSlot(call)),
                     securitySchemesRegistry[call.authHandler])

\* C5 happens: a scheme without scopes gives the requirement {apiKeyAuth: []}
C5_Witness ==
    /\ call.op = "registerRoute"
    /\ getContract(call.routeHandler) # Undefined
    /\ call.authHandler \in DOMAIN securitySchemesRegistry
    /\ securitySchemesRegistry[call.authHandler] = ApiKeyDefinition
    /\ OperationAt(openApiSchema, CallSlot(call)).security
           = <<[n \in {"apiKeyAuth"} |-> <<>>]>>
    /\ openApiSchema.components.securitySchemes["apiKeyAuth"]
           = ApiKeyDefinition.scheme

\* C6: registerRoute without handler, or with a handler that has no entry in
\* the association table, leaves the operation without security field and
\* leaves components.securitySchemes as it was.
C6_NoSchemeNoSecurity ==
    [][ ( /\ call'.op = "registerRoute"
          /\ getContract(call'.routeHandler) # Undefined
          /\ call'.authHandler \notin DOMAIN securitySchemesRegistry )
        => /\ "security" \notin
                  DOMAIN OperationAt(openApiSchema', CallSlot(call'))
           /\ openApiSchema'.components.securitySchemes
                  = openApiSchema.components.securitySchemes ]_vars

\* C6 happens: an unassociated handler a1 was passed while another scheme
\* is already in the document
C6_Witness ==
    /\ call.op = "registerRoute"
    /\ getContract(call.routeHandler) # Undefined
    /\ call.authHandler = "a1"
    /\ "a1" \notin DOMAIN securitySchemesRegistry
    /\ DOMAIN openApiSchema.components.securitySchemes # {}
    /\ "security" \notin DOMAIN OperationAt(openApiSchema, CallSlot(call))

\* C7: a build that starts from empty paths leaves exactly the slots
\* <<converted path, lower-case method>> of the recognized-method,
\* contract-bearing entries of the table.
C7_ExactSlots ==
    [][ (BuildStep /\ DOMAIN openApiSchema.paths = {})
        => LET t == Head(microtasks).routes
           IN  SlotsOf(openApiSchema') =
                   {EntrySlot(t[i]) : i \in {k \in 1..Len(t) : Documented(t[k])}}
      ]_vars

\* C7 happens: two documented entries share one slot, a third key is not
\* documented or absent, and the document holds the one slot
C7_Witness ==
    /\ Built
    /\ Len(routes) = 2
    /\ Documented(routes[1]) /\ Documented(routes[2])
    /\ EntrySlot(routes[1]) = EntrySlot(routes[2])
    /\ routes[1].key # routes[2].key
    /\ SlotsOf(openApiSchema) = {EntrySlot(routes[1])}

\* C8: a route whose handler has no contract never appears under paths: its
\* slot is absent unless a contract-bearing entry of the table has the slot.
C8_ContractlessAbsent ==
    \A i \in 1..Len(routes) :
        ( /\ KeyAccepted(routes[i])
          /\ ~ContractBearing(routes[i])
          /\ \A j \in 1..Len(routes) :
                 Documented(routes[j]) =>
                     EntrySlot(routes[j]) # EntrySlot(routes[i]) )
        => ~HasOperation(openApiSchema, EntrySlot(routes[i]))

\* C8 happens: the table was built, its contract-less route with an auth
\* handler is absent while another method of the same path is present
C8_Witness ==
    /\ Built
    /\ \E i, j \in 1..Len(routes) :
          /\ KeyAccepted(routes[i])
          /\ ~ContractBearing(routes[i])
          /\ "authHandler" \in DOMAIN EntryDescription(routes[i])
          /\ Documented(routes[j])
          /\ EntrySlot(routes[j])[1] = EntrySlot(routes[i])[1]
          /\ EntrySlot(routes[j])[2] # EntrySlot(routes[i])[2]
          /\ HasOperation(openApiSchema, EntrySlot(routes[j]))
          /\ ~HasOperation(openApiSchema, EntrySlot(routes[i]))

\* the entries of a table whose key is accepted, in order
RECURSIVE AcceptedOnly(_)
AcceptedOnly(t) ==
    IF t = <<>> THEN <<>>
    ELSE (IF KeyAccepted(Head(t)) THEN <<Head(t)>> ELSE <<>>)
             \o AcceptedOnly(Tail(t))

\* C9: a key without method part or path part, or with a method outside the
\* seven, is skipped and leaves the document as it was; a recognized method
\* in any letter case is taken and stored under its lower-case key.
C9_SkippedKeys ==
    [][ BuildStep =>
        LET t == Head(microtasks).routes
        IN  /\ openApiSchema' =
                   buildOpenApiSchema(openApiSchema, securitySchemesRegistry,
                                      nodekit, AcceptedOnly(t))
            /\ (\A i \in 1..Len(t) : ~KeyAccepted(t[i]))
                   => openApiSchema' = openApiSchema
            /\ \A i \in 1..Len(t) :
                   Documented(t[i]) => HasOperation(openApiSchema', EntrySlot(t[i]))
            /\ \A sl \in SlotsOf(openApiSchema') : sl[2] \in SevenMethods
      ]_vars

\* C9 happens: 'MOUNT /d' with a contract-bearing handler was skipped and
\* 'Put /a/:i' was stored under put
C9_Witness ==
    /\ Built
    /\ \E i, j \in 1..Len(routes) :
          /\ routes[i].key = KeyMount
          /\ ContractBearing(routes[i])
          /\ routes[j].key = KeyPutUser
          /\ ContractBearing(routes[j])
    /\ SlotsOf(openApiSchema) = {<<<<"/","a","/","{","i","}">>, <<"p","u","t">>>>}

\* the segments of a string between its slashes
RECURSIVE Segments(_, _)
Segments(s, cur) ==
    IF s = <<>> THEN <<cur>>
    ELSE IF Head(s) = "/" THEN <<cur>> \o Segments(Tail(s), <<>>)
    ELSE Segments(Tail(s), Append(cur, Head(s)))

\* ':name' becomes '{name}', every other segment stays
BraceSegment(seg) ==
    IF Len(seg) >= 2 /\ seg[1] = ":" THEN <<"{">> \o Tail(seg) \o <<"}">>
    ELSE seg

RECURSIVE JoinSlash(_)
JoinSlash(segs) ==
    IF Len(segs) = 1 THEN segs[1]
    ELSE segs[1] \o <<"/">> \o JoinSlash(Tail(segs))

\* the path with every segment that follows a slash converted on its own
SegmentwisePath(p) ==
    LET segs == Segments(p, <<>>)
    IN  JoinSlash([i \in 1..Len(segs) |->
                      IF i = 1 THEN segs[i] ELSE BraceSegment(segs[i])])

\* C10: the path key of a registered route is its path with every '/:name'
\* segment turned into '/{name}' and every other segment unchanged, and a
\* path that is already converted keeps its key (no double braces).
C10_PathConversion ==
    call.op = "registerRoute" =>
        /\ DOMAIN openApiSchema.paths = {SegmentwisePath(call.routePath)}
        /\ call.routePath \in DOMAIN openApiSchema.paths
               => \A k \in DOMAIN openApiSchema.paths :
                      expressToOpenApiPath(k) = k

\* C10 happens: '/:a/:a' was registered, then its key '/{a}/{a}' again
C10_Witness ==
    /\ call.op = "registerRoute"
    /\ call.routePath = <<"/","{","a","}","/","{","a","}">>
    /\ DOMAIN openApiSchema.paths = {call.routePath}

\* the string holds a colon-prefixed parameter segment: '/:' and a name of
\* at least one character other than '/'
HasColonParam(k) ==
    \E i \in 1..Len(k) :
        /\ i + 2 <= Len(k)
        /\ k[i] = "/"
        /\ k[i + 1] = ":"
        /\ k[i + 2] # "/"

\* C11: in every reachable state of the document, whatever registerRoute and
\* reset calls came before, no key of paths holds a '/:name' segment.
C11_NoColonParamKeys ==
    \A k \in DOMAIN openApiSchema.paths : ~HasColonParam(k)

\* C11 happens: '/::/:{' was registered and both of its parameters, named
\* ':' and '{', are in braces in the key
C11_Witness ==
    /\ call.op = "registerRoute"
    /\ call.routePath = <<"/",":",":","/",":","{">>
    /\ HasColonParam(call.routePath)
    /\ DOMAIN openApiSchema.paths = {<<"/","{",":","}","/","{","{","}">>}

\* C12: registerRoute for method m on path p leaves every operation stored
\* under another method of the same converted path, and every other path
\* entry, as it was; the path entry of p holds the methods it held before
\* and m.
C12_SiblingsKept ==
    [][ ( /\ call'.op = "registerRoute"
          /\ getContract(call'.routeHandler) # Undefined )
        => LET written == CallSlot(call')
               before == openApiSchema.paths
               after == openApiSchema'.paths
           IN  /\ \A sl \in SlotsOf(openApiSchema) :
                      sl # written =>
                          /\ HasOperation(openApiSchema', sl)
                          /\ OperationAt(openApiSchema', sl)
                                 = OperationAt(openApiSchema, sl)
               /\ \A k \in DOMAIN before :
                      k # written[1] => k \in DOMAIN after /\ after[k] = before[k]
               /\ DOMAIN after = DOMAIN before \cup {written[1]}
               /\ DOMAIN after[written[1]] =
                      (IF written[1] \in DOMAIN before
                       THEN DOMAIN before[written[1]] ELSE {}) \cup {written[2]}
      ]_vars

\* C12 happens: put was registered for '/a/:i' with the contract of h1 while
\* get of '/a/{i}' holds the operation of h2, which has no summary
C12_Witness ==
    /\ call.op = "registerRoute"
    /\ call.method = <<"P","U","T">>
    /\ call.routePath = <<"/","a","/",":","i">>
    /\ call.routeHandler = "h1"
    /\ DOMAIN openApiSchema.paths = {<<"/","a","/","{","i","}">>}
    /\ DOMAIN openApiSchema.paths[<<"/","a","/","{","i","}">>]
           = {<<"g","e","t">>, <<"p","u","t">>}
    /\ openApiSchema.paths[<<"/","a","/","{","i","}">>][<<"g","e","t">>].summary
           = Undefined
    /\ openApiSchema.paths[<<"/","a","/","{","i","}">>][<<"p","u","t">>].summary
           = Def("Get user by ID")

\* the latest call was a registerRoute with a contract-bearing handler
Registered ==
    call.op = "registerRoute" /\ getContract(call.routeHandler) # Undefined

\* the contract of that call, its request part and the operation it stored
CallContract == getContract(call.routeHandler).v
CallRequest ==
    IF "request" \in DOMAIN CallContract THEN CallContract.request ELSE EmptyObj
CallOperation == OperationAt(openApiSchema, CallSlot(call))

\* the names in the required list of the compiled schema
CompiledRequired(z) ==
    LET js == toJSONSchema(z)
    IN  IF "required" \in DOMAIN js
        THEN {js.required[i] : i \in 1..Len(js.required)} ELSE {}

\* the property names of an object schema; none for any other schema
PropertyNames(z) ==
    IF z.zod = "object" THEN {z.props[i].name : i \in 1..Len(z.props)} ELSE {}

\* the names of the parameters of an operation with the given location
ParameterNames(op, loc) ==
    {op.parameters[i].name :
        i \in {k \in 1..Len(op.parameters) : op.parameters[k].in = loc}}

\* the request part a parameter location is compiled from
RequestPartOf(loc) ==
    IF loc = "path" THEN "params" ELSE IF loc = "query" THEN "query" ELSE "headers"

\* C13: every parameter with in = 'path' has required = true, in the
\* compiled required list or not; a parameter with in = 'query' or 'header'
\* has required = true exactly when its name is in the compiled required
\* list.  Every property of the three request parts is emitted.
C13_RequiredFlags ==
    Registered =>
        /\ \A i \in 1..Len(CallOperation.parameters) :
               LET prm == CallOperation.parameters[i]
               IN  /\ prm.in \in {"path", "query", "header"}
                   /\ RequestPartOf(prm.in) \in DOMAIN CallRequest
                   /\ prm.required =
                          IF prm.in = "path" THEN TRUE
                          ELSE prm.name \in
                                   CompiledRequired(CallRequest[RequestPartOf(prm.in)])
        /\ \A loc \in {"path", "query", "header"} :
               ParameterNames(CallOperation, loc) =
                   IF RequestPartOf(loc) \in DOMAIN CallRequest
                   THEN PropertyNames(CallRequest[RequestPartOf(loc)])
                   ELSE {}

\* C13 happens: the path parameter 'rev' is optional in its schema and
\* required in the operation; the header 'x-trace' and the query parameter
\* 'limit' are optional, the header 'x-request-id' is required
C13_Witness ==
    /\ Registered
    /\ call.routeHandler = "h4"
    /\ "rev" \notin CompiledRequired(CallRequest.params)
    /\ \E i, j, k, l \in 1..Len(CallOperation.parameters) :
          LET ps == CallOperation.parameters
          IN  /\ ps[i].name = "rev" /\ ps[i].in = "path" /\ ps[i].required
              /\ ps[j].name = "x-trace" /\ ps[j].in = "header" /\ ~ps[j].required
              /\ ps[k].name = "x-request-id" /\ ps[k].in = "header"
                     /\ ps[k].required
              /\ ps[l].name = "limit" /\ ps[l].in = "query" /\ ~ps[l].required

\* a schema applies to a response entry: the bare schema itself, or the
\* schema field of the wrapper
SchemaApplies(responseDef) ==
    IsZodType(responseDef) \/ "schema" \in DOMAIN responseDef

\* the latest call registered a contract that declares its responses
RegisteredResponses == Registered /\ "response" \in DOMAIN CallContract

\* C14: for every status code of the contract's response.content the emitted
\* response object has a description, and it has a content field exactly
\* when a schema applies to the entry; no other status code is emitted.
C14_ContentIffSchema ==
    RegisteredResponses =>
        /\ DOMAIN CallOperation.responses = DOMAIN CallContract.response.content
        /\ \A code \in DOMAIN CallContract.response.content :
               LET r == CallOperation.responses[code]
               IN  /\ "description" \in DOMAIN r
                   /\ r.description # ""
                   /\ "content" \in DOMAIN r
                          <=> SchemaApplies(CallContract.response.content[code])

\* C14 happens: 204 with a description and no schema has no content, 404
\* with a schema and no description has content
C14_Witness ==
    /\ RegisteredResponses
    /\ call.routeHandler = "h2"
    /\ DOMAIN CallOperation.responses["204"] = {"description"}
    /\ DOMAIN CallOperation.responses["404"] = {"description", "content"}

\* the table of default descriptions
DefaultDescription(code) ==
    IF code = "200" THEN "Successful response"
    ELSE IF code = "201" THEN "Created successfully"
    ELSE IF code = "204" THEN "No content"
    ELSE IF code = "400" THEN "Bad request"
    ELSE IF code = "401" THEN "Unauthorized"
    ELSE IF code = "403" THEN "Forbidden"
    ELSE IF code = "404" THEN "Not found"
    ELSE IF code = "422" THEN "Validation error"
    ELSE IF code = "500" THEN "Internal server error"
    ELSE "Response"

\* the wrapper declares a description (an empty string declares none)
DeclaresDescription(responseDef) ==
    /\ ~IsZodType(responseDef)
    /\ "description" \in DOMAIN responseDef
    /\ responseDef.description # ""

\* the content type of the responses of a contract
ResponseContentType(contract) ==
    IF "contentType" \in DOMAIN contract.response
    THEN contract.response.contentType ELSE "application/json"

\* C15: the description of each emitted response is the one the wrapper
\* declares, otherwise (every bare schema included) the default of the
\* status code, 'Response' for a code outside the table; a bare schema also
\* yields content with its compiled schema under the default content type.
C15_Descriptions ==
    RegisteredResponses =>
        \A code \in DOMAIN CallContract.response.content :
            LET responseDef == CallContract.response.content[code]
                r == CallOperation.responses[code]
            IN  /\ r.description =
                       IF DeclaresDescription(responseDef)
                       THEN responseDef.description
                       ELSE DefaultDescription(code)
                /\ IsZodType(responseDef) =>
                       /\ "content" \in DOMAIN r
                       /\ r.content =
                              [ct \in {ResponseContentType(CallContract)} |->
                                  [schema |-> toJSONSchema(responseDef)]]

\* C15 happens: a declared description, a bare schema at a code outside the
\* table, defaults for wrappers without description
C15_Witness ==
    /\ RegisteredResponses
    /\ call.routeHandler = "h4"
    /\ CallOperation.responses["201"].description = "Item created"
    /\ CallOperation.responses["418"].description = "Response"
    /\ CallOperation.responses["500"].description = "Internal server error"
    /\ DOMAIN CallOperation.responses["418"].content = {"text/plain"}

\* C16: an operation has a requestBody exactly when its method is post, put
\* or patch and the contract declares request.body; then required is true
\* and content has one key per declared request content type, the single key
\* 'application/json' when none is declared, each with the compiled body.
C16_RequestBody ==
    Registered =>
        LET hasBody ==
                /\ CallSlot(call)[2] \in
                       {<<"p","o","s","t">>, <<"p","u","t">>, <<"p","a","t","c","h">>}
                /\ "body" \in DOMAIN CallRequest
        IN  /\ "requestBody" \in DOMAIN CallOperation <=> hasBody
            /\ hasBody =>
                   LET rb == CallOperation.requestBody
                       types == IF "contentType" \in DOMAIN CallRequest
                                THEN {CallRequest.contentType[i] :
                                         i \in 1..Len(CallRequest.contentType)}
                                ELSE {"application/json"}
                   IN  /\ rb.required = TRUE
                       /\ DOMAIN rb.content = types
                       /\ \A ct \in types :
                              rb.content[ct] =
                                  [schema |-> toJSONSchema(CallRequest.body)]

\* C16 happens: 'Patch' with two declared content types was registered, and
\* the same contract under get or delete has no requestBody
C16_Witness ==
    /\ Registered
    /\ call.routeHandler = "h4"
    /\ call.method = <<"P","a","t","c","h">>
    /\ DOMAIN CallOperation.requestBody.content
           = {"application/json", "multipart/form-data"}
    /\ \E sl \in SlotsOf(openApiSchema) :
          /\ sl[2] \in {<<"g","e","t">>, <<"d","e","l","e","t","e">>}
          /\ OperationAt(openApiSchema, sl).summary = Def("Search items")
          /\ "requestBody" \notin DOMAIN OperationAt(openApiSchema, sl)

\* C17: the operation carries operationId, summary, description and tags
\* with the contract's value when the contract declares the field, and has
\* no such key at all when the contract omits it.
C17_DescriptiveFields ==
    Registered =>
        /\ IF "operationId" \in DOMAIN CallContract
           THEN /\ "operationId" \in DOMAIN CallOperation
                /\ CallOperation.operationId = CallContract.operationId
           ELSE "operationId" \notin DOMAIN CallOperation
        /\ \A f \in {"summary", "description", "tags"} :
               IF f \in DOMAIN CallContract
               THEN /\ f \in DOMAIN CallOperation
                    /\ CallOperation[f] = Def(CallContract[f])
               ELSE f \notin DOMAIN CallOperation

\* C18: reset() leaves paths, components.schemas and
\* components.securitySchemes empty and leaves openapi, info, servers and the
\* reusable error responses (components.responses) as they were.
C18_ResetFrame ==
    [][ call'.op = "reset" =>
        /\ openApiSchema'.paths = EmptyObj
        /\ openApiSchema'.components.schemas = EmptyObj
        /\ openApiSchema'.components.securitySchemes = EmptyObj
        /\ openApiSchema'.openapi = openApiSchema.openapi
        /\ openApiSchema'.info = openApiSchema.info
        /\ openApiSchema'.servers = openApiSchema.servers
        /\ DOMAIN openApiSchema' = DOMAIN openApiSchema
        /\ DOMAIN openApiSchema'.components = DOMAIN openApiSchema.components
        /\ "responses" \in DOMAIN openApiSchema.components =>
               openApiSchema'.components.responses
                   = openApiSchema.components.responses
      ]_vars

\* C18 happens: after a reset the registry with contact, license and two
\* servers still has its metadata and the error responses of e1, and its
\* schemas are gone
C18_Witness ==
    /\ call.op = "reset"
    /\ config = FullConfig
    /\ openApiSchema.info.contact = FullConfig.contact
    /\ openApiSchema.info.title = "Super API"
    /\ Len(openApiSchema.servers) = 2
    /\ "responses" \in DOMAIN openApiSchema.components
    /\ DOMAIN openApiSchema.components.responses = {"Error400", "NotFound"}
    /\ openApiSchema.components.schemas = EmptyObj
    /\ openApiSchema.paths = EmptyObj

\* the document of a fresh registry with the same config on which the table
\* was registered once, every entry processed
FreshDocumentOf(t) ==
    buildOpenApiSchema(createOpenApiRegistry(config), securitySchemesRegistry,
                       nodekit, t)

ConfiguredMountPath ==
    IF "path" \in DOMAIN config THEN config.path
    ELSE <<"/","a","p","i","/","d","o","c","s">>

ConfiguredMountKey == <<"M","O","U","N","T"," ">> \o ConfiguredMountPath

\* C20: the table registerRoutes returns holds every entry of the input
\* table unchanged and exactly one more entry, whose key is 'MOUNT <path>'
\* with <path> = config.path when configured and '/api/docs' otherwise; the
\* mount path is never a key of document.paths.
C20_MountEntry ==
    /\ ConfiguredMountPath \notin DOMAIN openApiSchema.paths
    /\ call.op = "registerRoutes" =>
           /\ Len(call.ret) = Len(routes) + 1
           /\ \A i \in 1..Len(routes) : call.ret[i] = routes[i]
           /\ call.ret[Len(call.ret)].key = ConfiguredMountKey

\* C21: the mount serves the raw document as JSON at <path><swaggerJsonPath>
\* exactly when swaggerJsonPath is configured, and then the interactive UI
\* fetches the document from that endpoint instead of embedding it.
C21_JsonEndpoint ==
    call.op = "registerRoutes" =>
        LET served == mountHandler(config)
            jsonEndpoints == {u \in served : u.serves = "json"}
        IN  IF "swaggerJsonPath" \in DOMAIN config
            THEN /\ \E u \in jsonEndpoints : u.path = config.swaggerJsonPath
                 /\ \A u \in served :
                        u.serves = "swaggerUi" => u.document = "fetched"
            ELSE jsonEndpoints = {}

\* the latest step was an associate call
Associates == call'.op = "withSecurityScheme"

\* C22: lookup(h) returns the definition of the most recent associate(h, d)
\* with that handler reference and undefined when h was never associated;
\* associating one handler does not change the lookup of another handler,
\* and no other operation changes any lookup.
C22_LastWriterByIdentity ==
    /\ \A h \in AuthHandlers :
           getSecurityScheme(securitySchemesRegistry, h) = Undefined
    /\ [][ IF Associates
           THEN /\ getSecurityScheme(securitySchemesRegistry', call'.handler)
                       = Def(call'.definition)
                /\ \A h \in AuthHandlers \ {call'.handler} :
                       getSecurityScheme(securitySchemesRegistry', h)
                           = getSecurityScheme(securitySchemesRegistry, h)
           ELSE \A h \in AuthHandlers :
                    getSecurityScheme(securitySchemesRegistry', h)
                        = getSecurityScheme(securitySchemesRegistry, h)
          ]_vars

\* C22 happens: a1 was associated again, now with the definition that a2
\* holds as well, and a2 still has its own entry
C22_Witness ==
    /\ call.op = "withSecurityScheme"
    /\ call.handler = "a1"
    /\ call.definition = ApiKeyDefinition
    /\ getSecurityScheme(securitySchemesRegistry, "a1") = Def(ApiKeyDefinition)
    /\ getSecurityScheme(securitySchemesRegistry, "a2") = Def(ApiKeyDefinition)
    /\ DOMAIN openApiSchema.components.securitySchemes = {"jwtAuth"}

\* C23: withSecurityScheme(definition)(handler) returns the handler it was
\* given, and its only effect is that the handler is associated with the
\* definition: document, queue and every other association stay as they are.
C23_ReturnsSameHandler ==
    [][ Associates =>
        /\ call'.ret = call'.handler
        /\ securitySchemesRegistry' =
               Put(securitySchemesRegistry, call'.handler, call'.definition)
        /\ openApiSchema' = openApiSchema
        /\ microtasks' = microtasks
        /\ world' = world
      ]_vars

\* C23 happens: bearerAuth('jwtAuth', ['read:users'])(a2) returned a2 while
\* the document already holds an operation
C23_Witness ==
    /\ call.op = "withSecurityScheme"
    /\ call.handler = "a2"
    /\ call.ret = "a2"
    /\ call.definition = JwtDefinition
    /\ securitySchemesRegistry["a2"] = JwtDefinition
    /\ DOMAIN openApiSchema.paths # {}

\* the key of an error entry: its name when given, else 'Error' + code
ErrorKey(entry) ==
    IF ~IsZodType(entry.errorDef) /\ "name" \in DOMAIN entry.errorDef
    THEN entry.errorDef.name
    ELSE IF entry.statusCode = "400" THEN "Error400"
    ELSE IF entry.statusCode = "404" THEN "Error404"
    ELSE IF entry.statusCode = "409" THEN "Error409"
    ELSE IF entry.statusCode = "422" THEN "Error422"
    ELSE "Error500"

\* the schema of an error entry
ErrorSchemaOf(entry) ==
    IF IsZodType(entry.errorDef) THEN entry.errorDef ELSE entry.errorDef.schema

\* the entries of an error contract that have a schema, and among them the
\* last one for each key
WithSchema(entries) ==
    {i \in 1..Len(entries) : SchemaApplies(entries[i].errorDef)}
LastForKey(entries) ==
    {i \in WithSchema(entries) :
        \A j \in WithSchema(entries) :
            j > i => ErrorKey(entries[j]) # ErrorKey(entries[i])}

\* the responses map of the components, empty when there is none yet
ResponsesOf(doc) ==
    IF "responses" \in DOMAIN doc.components THEN doc.components.responses
    ELSE EmptyObj

\* C24: registerErrorHandler stores, for every entry with a schema, the
\* compiled schema under components.schemas[k] and a response under
\* components.responses[k], k being the entry's name or 'Error' + code; the
\* response content is keyed by the contract's content type and its schema
\* is the $ref to '#/components/schemas/k'.  Entries without schema add
\* nothing, every other key stays, and a handler without error contract
\* leaves the document unchanged.
C24_ErrorComponents ==
    [][ call'.op = "registerErrorHandler" =>
        IF getErrorContract(call'.errorHandler) = Undefined
        THEN openApiSchema' = openApiSchema
        ELSE LET errors == getErrorContract(call'.errorHandler).v.errors
                 entries == errors.content
                 ct == IF "contentType" \in DOMAIN errors
                       THEN errors.contentType ELSE "application/json"
                 keys == {ErrorKey(entries[i]) : i \in WithSchema(entries)}
                 old == openApiSchema.components
                 new == openApiSchema'.components
             IN  /\ DOMAIN new.schemas = DOMAIN old.schemas \cup keys
                 /\ DOMAIN new.responses = DOMAIN ResponsesOf(openApiSchema) \cup keys
                 /\ \A i \in LastForKey(entries) :
                        LET k == ErrorKey(entries[i])
                        IN  /\ new.schemas[k] = toJSONSchema(ErrorSchemaOf(entries[i]))
                            /\ DOMAIN new.responses[k].content = {ct}
                            /\ new.responses[k].content[ct].schema
                                   = [r \in {"$ref"} |->
                                         <<"#", "components", "schemas", k>>]
                            /\ new.responses[k].description =
                                   IF DeclaresDescription(entries[i].errorDef)
                                   THEN entries[i].errorDef.description
                                   ELSE DefaultDescription(entries[i].statusCode)
                 /\ \A k \in DOMAIN old.schemas \ keys :
                        new.schemas[k] = old.schemas[k]
                 /\ \A k \in DOMAIN ResponsesOf(openApiSchema) \ keys :
                        new.responses[k] = old.responses[k]
                 /\ new.securitySchemes = old.securitySchemes
                 /\ openApiSchema'.paths = openApiSchema.paths
                 /\ openApiSchema'.info = openApiSchema.info
      ]_vars

\* C24 happens: e1 was registered on top of the responses of e2: the named
\* entry is under 'NotFound', the bare schema under 'Error400', the entry
\* without schema added nothing
C24_Witness ==
    /\ call.op = "registerErrorHandler"
    /\ call.errorHandler = "e1"
    /\ DOMAIN openApiSchema.components.schemas = {"Error400", "NotFound"}
    /\ DOMAIN openApiSchema.components.responses
           = {"Error400", "NotFound", "Conflict"}
    /\ openApiSchema.components.responses["NotFound"].content["application/json"].schema
           = [r \in {"$ref"} |-> <<"#", "components", "schemas", "NotFound">>]

\* every '$ref' of a reusable response points to an existing schema
RefsResolve(doc) ==
    \A k \in DOMAIN ResponsesOf(doc) :
        \A ct \in DOMAIN doc.components.responses[k].content :
            LET ref == doc.components.responses[k].content[ct].schema["$ref"]
            IN  /\ ref[1] = "#" /\ ref[2] = "components" /\ ref[3] = "schemas"
                /\ ref[4] \in DOMAIN doc.components.schemas

\* C27 as stated: in every reachable state, after any registerErrorHandler,
\* registerRoutes and reset calls, every '$ref' to '#/components/schemas/k'
\* in components.responses points to a key k of components.schemas.
C27_RefsAlwaysResolve == RefsResolve(openApiSchema)

\* C27 amended: the references resolve in a new registry, and every
\* operation other than reset() keeps them resolving, so they resolve in
\* every state reached without reset(); reset() empties components.schemas
\* and keeps components.responses.
C27_RefsResolveUntilReset ==
    /\ RefsResolve(openApiSchema)
    /\ [][ (call'.op # "reset" /\ RefsResolve(openApiSchema))
               => RefsResolve(openApiSchema') ]_vars
    /\ [][ (call'.op = "reset" /\ DOMAIN ResponsesOf(openApiSchema) # {})
               => ~RefsResolve(openApiSchema') ]_vars

\* C27 happens: both error handlers were registered, routes were built, and
\* all four references resolve
C27_Witness ==
    /\ DOMAIN ResponsesOf(openApiSchema)
           = {"Error400", "NotFound", "Conflict"}
    /\ DOMAIN openApiSchema.components.schemas
           = {"Error400", "NotFound", "Conflict"}
    /\ DOMAIN openApiSchema.paths # {}
    /\ call.op = "registerErrorHandler"
    /\ RefsResolve(openApiSchema)

\* C25: a registration started before reset() never writes after it: once
\* reset() has returned, document.paths and components.securitySchemes stay
\* empty on every step that is not the invocation of another registration.
C25_NoWriteAfterReset ==
    [][ (call.op = "reset"
         /\ call'.op \notin {"registerRoutes", "registerRoute"})
          => (/\ openApiSchema'.paths = EmptyObj
              /\ openApiSchema'.components.securitySchemes = EmptyObj) ]_vars

\* the scheme names an operation's security list uses
SecurityNames(op) ==
    IF "security" \in DOMAIN op
    THEN UNION {DOMAIN op.security[i] : i \in 1..Len(op.security)}
    ELSE {}

\* C26: in every reachable state, every scheme name used in the security
\* list of any operation under document.paths is a key of
\* components.securitySchemes.
C26_SchemesDeclared ==
    \A slot \in SlotsOf(openApiSchema) :
        SecurityNames(OperationAt(openApiSchema, slot))
            \subseteq DOMAIN openApiSchema.components.securitySchemes

\* C26 happens: operations on two paths use the schemes of the two
\* handlers, and the application has just replaced the JWT scheme by hand
C26_Witness ==
    /\ call.op = "registerSecurityScheme"
    /\ \E s1, s2 \in SlotsOf(openApiSchema) :
          /\ SecurityNames(OperationAt(openApiSchema, s1)) = {"jwtAuth"}
          /\ SecurityNames(OperationAt(openApiSchema, s2)) = {"apiKeyAuth"}
          /\ s1[1] # s2[1]
    /\ openApiSchema.components.securitySchemes["jwtAuth"] = BasicScheme

\* C28: registering a route whose handler has no contract leaves the entire
\* document unchanged, components.securitySchemes included, also when the
\* route's auth handler is associated with a scheme.
C28_NoContractNoChange ==
    [][ (call'.op = "registerRoute"
         /\ getContract(call'.routeHandler) = Undefined)
          => openApiSchema' = openApiSchema ]_vars

\* C28 happens: a handler without contract was registered under an auth
\* handler whose scheme the document, which has an operation, does not hold
C28_Witness ==
    /\ call.op = "registerRoute"
    /\ getContract(call.routeHandler) = Undefined
    /\ call.authHandler \in DOMAIN securitySchemesRegistry
    /\ securitySchemesRegistry[call.authHandler].name
           \notin DOMAIN openApiSchema.components.securitySchemes
    /\ openApiSchema.paths # EmptyObj

\* C30: reset() leaves the association table untouched, so a handler
\* associated before reset() still looks up to the same definition, and a
\* route registered right after reset() gets the security requirement and
\* the scheme entry of its handler's definition again.
C30_ResetKeepsAssociations ==
    /\ [][ call'.op = "reset"
             => /\ securitySchemesRegistry' = securitySchemesRegistry
                /\ \A a \in AuthHandlers :
                      getSecurityScheme(securitySchemesRegistry', a)
                          = getSecurityScheme(securitySchemesRegistry, a) ]_vars
    /\ [][ (/\ call.op = "reset"
            /\ call'.op = "registerRoute"
            /\ getContract(call'.routeHandler) # Undefined
            /\ call'.authHandler \in DOMAIN securitySchemesRegistry)
             => /\ HasOperation(openApiSchema', CallSlot(call'))
                /\ HasSecurityOf(openApiSchema',
                                 OperationAt(openApiSchema', CallSlot(call')),
                                 securitySchemesRegistry[call'.authHandler])
          ]_vars

\* C30 happens: reset() has just run on a registry whose two auth handlers
\* are associated with different definitions
C30_Witness ==
    /\ call.op = "reset"
    /\ DOMAIN securitySchemesRegistry = AuthHandlers
    /\ securitySchemesRegistry["a1"] # securitySchemesRegistry["a2"]
    /\ openApiSchema.paths = EmptyObj
    /\ openApiSchema.components.securitySchemes = EmptyObj

\* the operation the registration of one table entry produces on its own
OperationOfEntry(e) ==
    OperationAt(buildEntry(createOpenApiRegistry(config),
                           securitySchemesRegistry, nodekit, e),
                EntrySlot(e))

\* C29: when several registrations target one lower-cased method and one
\* converted path, within a table or in successive registerRoutes calls, the
\* operation stored after the build is exactly the one the latest of them
\* produces, with no field of an earlier operation merged in; the slots no
\* entry of the table targets are unchanged.
C29_LaterRegistrationWins ==
    [][ BuildStep =>
        LET t == Head(microtasks).routes
        IN  /\ \A i \in 1..Len(t) :
                   (Documented(t[i]) /\ LastWriter(t, i))
                     => /\ HasOperation(openApiSchema', EntrySlot(t[i]))
                        /\ OperationAt(openApiSchema', EntrySlot(t[i]))
                               = OperationOfEntry(t[i])
            /\ \A sl \in SlotsOf(openApiSchema) :
                   (\A i \in 1..Len(t) :
                        Documented(t[i]) => EntrySlot(t[i]) # sl)
                     => /\ HasOperation(openApiSchema', sl)
                        /\ OperationAt(openApiSchema', sl)
                               = OperationAt(openApiSchema, sl)
      ]_vars

\* C29 happens: 'GET /a/:i' and 'get /a/{i}' were built into one slot, and
\* the stored operation lacks a field that the operation of the first entry
\* has
C29_Witness ==
    /\ Built
    /\ Len(routes) = 2
    /\ routes[1].key = KeyGetUser
    /\ routes[2].key = KeyGetUserBrace
    /\ Documented(routes[1]) /\ Documented(routes[2])
    /\ EntrySlot(routes[1]) = EntrySlot(routes[2])
    /\ HasOperation(openApiSchema, EntrySlot(routes[2]))
    /\ OperationAt(openApiSchema, EntrySlot(routes[2]))
           = OperationOfEntry(routes[2])
    /\ DOMAIN OperationOfEntry(routes[1])
           \ DOMAIN OperationAt(openApiSchema, EntrySlot(routes[2])) # {}
====
